---- MODULE Spec2Model ----
(***************************************************************************)
(* The useNHLAPI hook of nhl-api-package (src/nhl-api-package/src/index.ts) *)
(* as a state machine: one hook instance with its three state cells         *)
(* (data, loading, error), a bounded number of fetchData invocations that   *)
(* may overlap, each suspended at its awaits, and clearData.                *)
(*                                                                          *)
(* JavaScript strings are TLA+ strings and + is \o.  A string that the code *)
(* looks into character by character (the argument of encodeURIComponent    *)
(* and of toUpperCase) is held as the sequence of its one-character         *)
(* strings, and Str joins such a sequence into the string it spells.        *)
(* null is the empty sequence and a non-null value v is <<v>>.              *)
(*                                                                          *)
(* Spec is every run of the hook.  SpecOverlap keeps the runs in which each *)
(* later invocation starts while the one before it is in flight, and        *)
(* SpecModes the runs in which invocations follow one another, with the way *)
(* each attempt failed (network fault, HTTP status, undecodable body) on    *)
(* record in modes; in the other specifications modes stays empty.          *)
(* SpecDemo is the usage of NHLDataDemo (no overlap, no clearData in        *)
(* flight, no throwing callback), SpecLive is Spec with every pending await *)
(* eventually completing, SpecLibrary calls the endpoint library of         *)
(* src/unnamed/part_002, SpecInstances runs a second hook instance (peer)   *)
(* beside the first, and SpecPage runs the testers of the Index page        *)
(* (src/unnamed/part_001), which have a relay loop of their own.            *)
(***************************************************************************)
EXTENDS Naturals, Sequences, FiniteSets

(* ------------------------------------------------------------------ *)
(* Bounds                                                              *)
(* ------------------------------------------------------------------ *)

\* fetchData invocations made on the one hook instance during a run
MaxCalls == 2

Calls == 1..MaxCalls

(* ------------------------------------------------------------------ *)
(* Program constants                                                   *)
(* ------------------------------------------------------------------ *)

CORS_PROXIES ==
  << "https://api.allorigins.win/raw?url=",
     "https://corsproxy.io/?",
     "https://cors-anywhere.herokuapp.com/" >>

WebKey == <<"w","e","b">>
StatsKey == <<"s","t","a","t","s">>

\* keyof typeof NHL_APIS
ApiTypes == {WebKey, StatsKey}

NHL_APIS(apiType) ==
  IF apiType = WebKey
    THEN <<"h","t","t","p","s",":","/","/","a","p","i","-","w","e","b",".","n","h","l","e",".","c","o","m","/","v","1">>
    ELSE <<"h","t","t","p","s",":","/","/","a","p","i",".","n","h","l","e",".","c","o","m","/","s","t","a","t","s","/","r","e","s","t","/","e","n">>

(* ------------------------------------------------------------------ *)
(* Inputs and environment                                              *)
(* ------------------------------------------------------------------ *)

\* an argument the caller left out
Undefined == <<"undefined">>

\* the slip of defaulting to the other host family
ApiTypeParam_DefaultsToStats(arg) == IF arg = Undefined THEN StatsKey ELSE arg

\* apiType: keyof typeof NHL_APIS = 'web': the parameter's value for an argument
ApiTypeParam(arg) == IF arg = Undefined THEN WebKey ELSE arg

\* the (endpoint, apiType) arguments callers pass: a catalog path with apiType
\* left out, and on the stats API a path with a query string and a blank,
\* whose characters encodeURIComponent must escape
Requests ==
  { [endpoint |-> <<"/","s","t","a","n","d","i","n","g","s","/","n","o","w">>,
     apiType  |-> Undefined],
    [endpoint |-> <<"/","t","e","a","m","?","a","=","b"," ","c">>,
     apiType  |-> StatsKey] }

\* the JSON document the upstream API serves for an endpoint, which a relay
\* that answers 2xx with a parseable body delivers decoded
UpstreamBody(endpoint) ==
  IF endpoint = <<"/","s","t","a","n","d","i","n","g","s","/","n","o","w">>
    THEN "standings document"
    ELSE "team document"

\* what the caller put in options: no callback, one that returns, one that throws
CallbackKinds == {"absent", "returns", "throws"}

\* the message of the exception a throwing callback raises
CallbackException == "callback exception"

Null == <<>>
Some(v) == <<v>>

(* ------------------------------------------------------------------ *)
(* String functions of the JavaScript runtime                          *)
(* ------------------------------------------------------------------ *)

RECURSIVE Str(_)
Str(s) == IF s = <<>> THEN "" ELSE Head(s) \o Str(Tail(s))

\* printable ASCII in code order, code 32 first; the double quote (34), the
\* backslash (92) and the backtick (96) are held by names, no input of the
\* model contains them
AsciiPrintable ==
  <<" ","!","QUOTE","#","$","%","&","'","(",")","*","+",",","-",".","/",
    "0","1","2","3","4","5","6","7","8","9",":",";","<","=",">","?","@",
    "A","B","C","D","E","F","G","H","I","J","K","L","M","N","O","P","Q","R","S","T","U","V","W","X","Y","Z",
    "[","BACKSLASH","]","^","_","BACKTICK",
    "a","b","c","d","e","f","g","h","i","j","k","l","m","n","o","p","q","r","s","t","u","v","w","x","y","z",
    "{","|","}","~">>

\* AsciiPrintable[k] has code 31 + k
CharCode(c) ==
  31 + CHOOSE k \in 1..Len(AsciiPrintable) : AsciiPrintable[k] = c

HexDigits == <<"0","1","2","3","4","5","6","7","8","9","A","B","C","D","E","F">>

\* the characters encodeURIComponent leaves alone: A-Z a-z 0-9 - _ . ! ~ * ' ( )
UriUnreserved ==
  { AsciiPrintable[k] : k \in 17..26 } \cup { AsciiPrintable[k] : k \in 34..59 }
    \cup { AsciiPrintable[k] : k \in 66..91 }
    \cup {"-","_",".","!","~","*","'","(",")"}

EncodeChar(c) ==
  IF c \in UriUnreserved
    THEN c
    ELSE "%" \o HexDigits[(CharCode(c) \div 16) + 1] \o HexDigits[(CharCode(c) % 16) + 1]

\* EncodeChar, tabulated once
Escapes == [c \in {AsciiPrintable[k] : k \in 1..Len(AsciiPrintable)} |-> EncodeChar(c)]

RECURSIVE encodeURIComponent(_)
encodeURIComponent(s) ==
  IF s = <<>> THEN "" ELSE Escapes[Head(s)] \o encodeURIComponent(Tail(s))

UpperOf(c) ==
  IF \E k \in 66..91 : AsciiPrintable[k] = c
    THEN AsciiPrintable[(CHOOSE k \in 66..91 : AsciiPrintable[k] = c) - 32]
    ELSE c

toUpperCase(s) == [k \in 1..Len(s) |-> UpperOf(s[k])]

(* ------------------------------------------------------------------ *)
(* fetchData's pure parts                                              *)
(* ------------------------------------------------------------------ *)

\* const targetUrl = `${baseUrl}${endpoint}`, as its characters
TargetUrl(endpoint, apiType) == NHL_APIS(apiType) \o endpoint

\* the slip of appending the target as it is
FullUrl_Unencoded(proxyUrl, target) == proxyUrl \o Str(target)

\* const fullUrl = proxyUrl + encodeURIComponent(targetUrl), for every proxy
FullUrl(proxyUrl, target) == proxyUrl \o encodeURIComponent(target)

\* the slip of recording the URL that was requested from the proxy
Envelope_RecordsFullUrl(apiType, target, proxyUrl, responseData) ==
  [ source   |-> "NHL " \o Str(toUpperCase(apiType)) \o " API",
    endpoint |-> FullUrl(proxyUrl, target),
    proxy    |-> proxyUrl,
    data     |-> responseData ]

\* the NHLAPIResponse built after a successful decode
Envelope(apiType, target, proxyUrl, responseData) ==
  [ source   |-> "NHL " \o Str(toUpperCase(apiType)) \o " API",
    endpoint |-> Str(target),
    proxy    |-> proxyUrl,
    data     |-> responseData ]

\* the slip of naming the encoded URL in the message
ErrorMsg_Encoded(target) == "Failed to fetch NHL data from " \o encodeURIComponent(target)

\* const errorMsg = `Failed to fetch NHL data from ${targetUrl}`
ErrorMsg(target) == "Failed to fetch NHL data from " \o Str(target)

\* the target URLs of the model's requests, and FullUrl and ErrorMsg tabulated
\* once over them
Targets == { TargetUrl(r.endpoint, ApiTypeParam(r.apiType)) : r \in Requests }

FullUrlOf ==
  [k \in 1..Len(CORS_PROXIES), t \in Targets |-> FullUrl(CORS_PROXIES[k], t)]

ErrorMsgOf == [t \in Targets |-> ErrorMsg(t)]

(* ------------------------------------------------------------------ *)
(* The endpoint library (src/unnamed/part_002)                         *)
(* ------------------------------------------------------------------ *)

NHL_TEAMS ==
  [ COL |-> "Colorado Avalanche",
    VGK |-> "Vegas Golden Knights",
    DAL |-> "Dallas Stars",
    LAK |-> "Los Angeles Kings" ]

\* the property names every object inherits from Object.prototype
ObjectPrototypeKeys ==
  { "constructor", "hasOwnProperty", "isPrototypeOf", "propertyIsEnumerable",
    "toLocaleString", "toString", "valueOf", "__proto__",
    "__defineGetter__", "__defineSetter__", "__lookupGetter__", "__lookupSetter__" }

\* key in obj, for an object literal: own properties, then the prototype chain
In(key, obj) == key \in DOMAIN obj \/ key \in ObjectPrototypeKeys

\* season: string = '20252026': the parameter's value for an argument that is
\* Null when left out and Some(s) when given
SeasonParam(arg) == IF arg = Null THEN "20252026" ELSE arg[1]

\* the slip of keeping last season as the default
teamSchedule_LastSeason(teamCode, season) ==
  "/club-schedule-season/" \o teamCode \o "/" \o
    (IF season = Null THEN "20242025" ELSE season[1])

\* NHL_WEB_ENDPOINTS
currentSchedule == "/schedule/now"

currentStandings == "/standings/now"

teamSchedule(teamCode, season) ==
  "/club-schedule-season/" \o teamCode \o "/" \o SeasonParam(season)

\* the slip of checking the team code in the template
teamRoster_Checked(teamCode) ==
  IF teamCode \in DOMAIN NHL_TEAMS
    THEN "/roster/" \o teamCode \o "/current"
    ELSE "/roster/undefined/current"

teamRoster(teamCode) == "/roster/" \o teamCode \o "/current"

teamStats(teamCode, season) ==
  "/club-stats/" \o teamCode \o "/" \o SeasonParam(season) \o "/2"

gameDetails(gameId) == "/gamecenter/" \o gameId \o "/landing"

playerProfile(playerId) == "/player/" \o playerId \o "/landing"

\* NHL_STATS_ENDPOINTS
playerLeaders == "/leaders/skaters"

goalieLeaders == "/leaders/goalies"

\* the slip of a helper that does not pass its season on
getTeamStats_DropsSeason(teamCode, season) == teamStats(teamCode, Null)

\* NHLEndpoints: the helper applies its own default and passes the season on
getTeamSchedule(teamCode, season) == teamSchedule(teamCode, Some(SeasonParam(season)))

getTeamRoster(teamCode) == teamRoster(teamCode)

getTeamStats(teamCode, season) == teamStats(teamCode, Some(SeasonParam(season)))

getCurrentSchedule == currentSchedule

getCurrentStandings == currentStandings

getPlayerLeaders == playerLeaders

getGoalieLeaders == goalieLeaders

isValidTeamCode(code) == In(code, NHL_TEAMS)

\* the strings callers pass for a team code: the four codes of NHL_TEAMS, a
\* code that is not in it, a code in lower case, the empty string, and names
\* of properties of Object.prototype
TeamCodeInputs ==
  { "COL", "VGK", "DAL", "LAK", "SEA", "col", "", "toString", "constructor" }

\* the season argument: left out, the current season, another season
SeasonInputs == { Null, Some("20252026"), Some("20242025") }

\* game and player identifiers
IdInputs == { "2025020001", "8478420" }

(* ------------------------------------------------------------------ *)
(* State                                                               *)
(* ------------------------------------------------------------------ *)

VARIABLES
  data,         \* useState<NHLAPIResponse | null>: Null or Some(envelope)
  loading,      \* useState(false)
  error,        \* useState<string | null>: Null or Some(message)
  options,      \* the hook's options: the kind of onSuccess and of onError
  pc,           \* per invocation: where its async body stands
  endpointOf,   \* per invocation: the endpoint argument
  apiTypeArg,   \* per invocation: the apiType argument, Undefined when left out
  apiTypeOf,    \* per invocation: the apiType parameter
  targetUrl,    \* per invocation: the local targetUrl, as its characters
  i,            \* per invocation: the loop index
  attempts,     \* per invocation: the fetch calls made so far and how each ended
  successCalls, \* per invocation: the arguments it passed to options.onSuccess
  errorCalls,   \* per invocation: the arguments it passed to options.onError
  result,       \* per invocation: the promise fetchData returned
  lastOp,       \* what ran last: a fetchData call, clearData, or a continuation
  stored,       \* per invocation: what its last setData(result) left in data
  storedError,  \* per invocation: what its setError(errorMsg) left in error
  modes,        \* per invocation: the ways its attempts failed, where observed
  lastCall,     \* the last call of the endpoint library and what it returned
  peer,         \* a second hook instance: its state cells and its invocation
  page          \* the Index page: its state cells, its toast and its running tester

vars == <<data, loading, error, options, pc, endpointOf, apiTypeArg, apiTypeOf, targetUrl,
          i, attempts, successCalls, errorCalls, result, lastOp, stored, storedError,
          modes, lastCall, peer, page>>

\* what the hook instance and its invocations hold
hook == <<data, loading, error, options, pc, endpointOf, apiTypeArg, apiTypeOf, targetUrl,
          i, attempts, successCalls, errorCalls, result, lastOp, stored, storedError>>

\* what no step of the hook touches
aside == <<lastCall, peer, page>>

locals == <<endpointOf, apiTypeArg, apiTypeOf, targetUrl>>

Pending == [state |-> "pending", value |-> "none", reason |-> ""]
Fulfilled(v) == [state |-> "fulfilled", value |-> v, reason |-> ""]
Rejected(r) == [state |-> "rejected", value |-> "none", reason |-> r]

\* a call of the endpoint library: `path` is the string a path function
\* returned and `valid` the boolean isValidTeamCode returned
LibraryCall(fn, teamCode, season, path, valid) ==
  [fn |-> fn, teamCode |-> teamCode, season |-> season, path |-> path, valid |-> valid]

Init ==
  /\ data = Null
  /\ loading = FALSE
  /\ error = Null
  /\ options \in [onSuccess : CallbackKinds, onError : CallbackKinds]
  /\ pc = [c \in Calls |-> "idle"]
  /\ endpointOf = [c \in Calls |-> <<>>]
  /\ apiTypeArg = [c \in Calls |-> Undefined]
  /\ apiTypeOf = [c \in Calls |-> WebKey]
  /\ targetUrl = [c \in Calls |-> <<>>]
  /\ i = [c \in Calls |-> 0]
  /\ attempts = [c \in Calls |-> <<>>]
  /\ successCalls = [c \in Calls |-> <<>>]
  /\ errorCalls = [c \in Calls |-> <<>>]
  /\ result = [c \in Calls |-> Pending]
  /\ lastOp = "none"
  /\ stored = [c \in Calls |-> Null]
  /\ storedError = [c \in Calls |-> Null]
  /\ modes = [c \in Calls |-> {}]
  /\ lastCall = LibraryCall("none", "", Null, "", FALSE)
  /\ peer = [data |-> Null, loading |-> FALSE, error |-> Null, pc |-> "idle", i |-> 0]
  /\ page = [ connectionStatus |-> "idle", apiData |-> Null, toast |-> Null,
              tester |-> "none", pc |-> "idle", endpointIndex |-> 0, i |-> 0,
              log |-> <<>> ]

(* ------------------------------------------------------------------ *)
(* Steps of fetchData                                                  *)
(* ------------------------------------------------------------------ *)

\* one fetch(fullUrl) call of the loop body, for proxy index k (0-based):
\* outcome is "outstanding", then "failed" (the catch block ran) or "success"
\* (a 2xx response whose body parsed, payload being the decoded body)
NewAttempt(k, target) ==
  [ index   |-> k,
    url     |-> FullUrlOf[k + 1, target],
    outcome |-> "outstanding",
    payload |-> "none" ]

\* the attempt log with its last entry closed
Closed(log, outcome, payload) ==
  [log EXCEPT ![Len(log)] = [@ EXCEPT !.outcome = outcome, !.payload = payload]]

\* the slip of leaving the previous payload in place
ResetState_KeepsData ==
  /\ loading' = TRUE
  /\ error' = Null
  /\ UNCHANGED data

\* the slip of leaving the previous error in place
ResetState_KeepsError ==
  /\ loading' = TRUE
  /\ data' = Null
  /\ UNCHANGED error

\* setLoading(true); setError(null); setData(null)
ResetState ==
  /\ loading' = TRUE
  /\ error' = Null
  /\ data' = Null

\* the slip of starting at the proxy that answered the invocation before
FetchData_StartsAtLastGood(c, endpoint, apiType) ==
  LET good == IF c > 1 /\ pc[c - 1] = "resolved" THEN i[c - 1] ELSE 0 IN
    /\ pc[c] = "idle"
    /\ \A b \in Calls : b < c => pc[b] # "idle"
    /\ ResetState
    /\ endpointOf' = [endpointOf EXCEPT ![c] = endpoint]
    /\ apiTypeArg' = [apiTypeArg EXCEPT ![c] = apiType]
    /\ apiTypeOf' = [apiTypeOf EXCEPT ![c] = ApiTypeParam(apiType)]
    /\ targetUrl' = [targetUrl EXCEPT ![c] = TargetUrl(endpoint, ApiTypeParam(apiType))]
    /\ i' = [i EXCEPT ![c] = good]
    /\ attempts' = [attempts EXCEPT ![c] =
         <<NewAttempt(good, TargetUrl(endpoint, ApiTypeParam(apiType)))>>]
    /\ pc' = [pc EXCEPT ![c] = "fetching"]
    /\ lastOp' = "fetchData"
    /\ UNCHANGED <<options, successCalls, errorCalls, result, stored, storedError>>

\* the synchronous part of fetchData, up to the first await fetch(fullUrl)
FetchData(c, endpoint, apiType) ==
  /\ pc[c] = "idle"
  /\ \A b \in Calls : b < c => pc[b] # "idle"
  /\ ResetState
  /\ endpointOf' = [endpointOf EXCEPT ![c] = endpoint]
  /\ apiTypeArg' = [apiTypeArg EXCEPT ![c] = apiType]
  /\ apiTypeOf' = [apiTypeOf EXCEPT ![c] = ApiTypeParam(apiType)]
  /\ targetUrl' = [targetUrl EXCEPT ![c] = TargetUrl(endpoint, ApiTypeParam(apiType))]
  /\ i' = [i EXCEPT ![c] = 0]
  /\ attempts' = [attempts EXCEPT ![c] =
       <<NewAttempt(0, TargetUrl(endpoint, ApiTypeParam(apiType)))>>]
  /\ pc' = [pc EXCEPT ![c] = "fetching"]
  /\ lastOp' = "fetchData"
  /\ UNCHANGED <<options, successCalls, errorCalls, result, stored, storedError>>

\* the slip of telling in the message that a proxy answered with an HTTP error
AllProxiesFailed_TellsHttpError(c) ==
  LET errorMsg == ErrorMsgOf[targetUrl[c]] \o
                    (IF "http status" \in modes'[c] THEN " (HTTP error)" ELSE "") IN
    /\ error' = Some(errorMsg)
    /\ storedError' = [storedError EXCEPT ![c] = error']
    /\ loading' = FALSE
    /\ errorCalls' = [errorCalls EXCEPT ![c] =
         IF options.onError = "absent" THEN @ ELSE Append(@, errorMsg)]
    /\ result' = [result EXCEPT ![c] =
         IF options.onError = "throws"
           THEN Rejected(CallbackException)
           ELSE Rejected(errorMsg)]
    /\ pc' = [pc EXCEPT ![c] = "rejected"]
    /\ UNCHANGED i

\* after the loop: setError(errorMsg); setLoading(false); onError?.(errorMsg); throw
AllProxiesFailed(c) ==
  /\ error' = Some(ErrorMsgOf[targetUrl[c]])
  /\ storedError' = [storedError EXCEPT ![c] = error']
  /\ loading' = FALSE
  /\ errorCalls' = [errorCalls EXCEPT ![c] =
       IF options.onError = "absent" THEN @ ELSE Append(@, ErrorMsgOf[targetUrl[c]])]
  /\ result' = [result EXCEPT ![c] =
       IF options.onError = "throws"
         THEN Rejected(CallbackException)
         ELSE Rejected(ErrorMsgOf[targetUrl[c]])]
  /\ pc' = [pc EXCEPT ![c] = "rejected"]
  /\ UNCHANGED i

\* the slip of showing every failed attempt as the hook's error
Continue_SurfacesAttempt(c, outcome, payload, nowLoading) ==
  IF i[c] + 1 < Len(CORS_PROXIES)
    THEN /\ i' = [i EXCEPT ![c] = @ + 1]
         /\ attempts' = [attempts EXCEPT ![c] =
              Append(Closed(@, outcome, payload), NewAttempt(i[c] + 1, targetUrl[c]))]
         /\ pc' = [pc EXCEPT ![c] = "fetching"]
         /\ loading' = nowLoading
         /\ error' = IF outcome = "failed" THEN Some("Failed with " \o CORS_PROXIES[i[c] + 1])
                                           ELSE error
         /\ UNCHANGED <<errorCalls, result, storedError>>
    ELSE /\ attempts' = [attempts EXCEPT ![c] = Closed(@, outcome, payload)]
         /\ AllProxiesFailed(c)

\* the slip of asking the last proxy again and again instead of giving up
Continue_RetriesLastProxy(c, outcome, payload, nowLoading) ==
  /\ i' = [i EXCEPT ![c] = IF @ + 1 < Len(CORS_PROXIES) THEN @ + 1 ELSE @]
  /\ attempts' = [attempts EXCEPT ![c] =
       Append(Closed(@, outcome, payload), NewAttempt(i'[c], targetUrl[c]))]
  /\ pc' = [pc EXCEPT ![c] = "fetching"]
  /\ loading' = nowLoading
  /\ UNCHANGED <<error, errorCalls, result, storedError>>

\* the slip of asking the first proxy a second time before moving on
Continue_RetriesFirstProxy(c, outcome, payload, nowLoading) ==
  IF Len(attempts[c]) = 1
    THEN /\ attempts' = [attempts EXCEPT ![c] =
              Append(Closed(@, outcome, payload), NewAttempt(i[c], targetUrl[c]))]
         /\ pc' = [pc EXCEPT ![c] = "fetching"]
         /\ loading' = nowLoading
         /\ UNCHANGED <<i, error, errorCalls, result, storedError>>
    ELSE IF i[c] + 1 < Len(CORS_PROXIES)
      THEN /\ i' = [i EXCEPT ![c] = @ + 1]
           /\ attempts' = [attempts EXCEPT ![c] =
                Append(Closed(@, outcome, payload), NewAttempt(i[c] + 1, targetUrl[c]))]
           /\ pc' = [pc EXCEPT ![c] = "fetching"]
           /\ loading' = nowLoading
           /\ UNCHANGED <<error, errorCalls, result, storedError>>
      ELSE /\ attempts' = [attempts EXCEPT ![c] = Closed(@, outcome, payload)]
           /\ AllProxiesFailed(c)

\* catch (err) { continue }: the attempt on proxy i ended as `outcome`; the loop
\* goes on to proxy i + 1, or falls out of the loop when there is none.
\* `nowLoading` is the value of loading when the catch block is entered.
Continue(c, outcome, payload, nowLoading) ==
  IF i[c] + 1 < Len(CORS_PROXIES)
    THEN /\ i' = [i EXCEPT ![c] = @ + 1]
         /\ attempts' = [attempts EXCEPT ![c] =
              Append(Closed(@, outcome, payload), NewAttempt(i[c] + 1, targetUrl[c]))]
         /\ pc' = [pc EXCEPT ![c] = "fetching"]
         /\ loading' = nowLoading
         /\ UNCHANGED <<error, errorCalls, result, storedError>>
    ELSE /\ attempts' = [attempts EXCEPT ![c] = Closed(@, outcome, payload)]
         /\ AllProxiesFailed(c)

\* await fetch(fullUrl) rejects: a network fault
FetchRejects(c) ==
  /\ pc[c] = "fetching"
  /\ Continue(c, "failed", "none", loading)
  /\ lastOp' = "continuation"
  /\ UNCHANGED <<data, options, locals, successCalls, stored>>

\* await fetch(fullUrl) resolves with !response.ok: throw new Error(...)
HttpError(c) ==
  /\ pc[c] = "fetching"
  /\ Continue(c, "failed", "none", loading)
  /\ lastOp' = "continuation"
  /\ UNCHANGED <<data, options, locals, successCalls, stored>>

\* await fetch(fullUrl) resolves with response.ok and await response.json()
\* rejects: the body is not JSON.  (Between the two awaits the code touches
\* nothing, so they are one step.)
JsonRejects(c) ==
  /\ pc[c] = "fetching"
  /\ Continue(c, "failed", "none", loading)
  /\ lastOp' = "continuation"
  /\ UNCHANGED <<data, options, locals, successCalls, stored>>

\* setData(result); setLoading(false)
StoreResult(envelope) ==
  /\ data' = Some(envelope)
  /\ loading' = FALSE

\* a fenced success: the envelope of an invocation that a later-issued one has
\* superseded is not stored
JsonResolves_IgnoresSuperseded(c, responseData) ==
  LET superseded == \E b \in Calls : b > c /\ pc[b] # "idle" IN
  /\ pc[c] = "fetching"
  /\ IF superseded
       THEN UNCHANGED <<data, loading, stored>>
       ELSE /\ StoreResult(Envelope(apiTypeOf[c], targetUrl[c], CORS_PROXIES[i[c] + 1],
                                    responseData))
            /\ stored' = [stored EXCEPT ![c] = data']
  /\ successCalls' = [successCalls EXCEPT ![c] =
       IF options.onSuccess = "absent" THEN @ ELSE Append(@, responseData)]
  /\ IF options.onSuccess = "throws"
       THEN Continue(c, "success", responseData, IF superseded THEN loading ELSE FALSE)
       ELSE /\ attempts' = [attempts EXCEPT ![c] = Closed(@, "success", responseData)]
            /\ result' = [result EXCEPT ![c] = Fulfilled(responseData)]
            /\ pc' = [pc EXCEPT ![c] = "resolved"]
            /\ UNCHANGED <<i, error, errorCalls, storedError>>
  /\ lastOp' = "continuation"
  /\ UNCHANGED <<options, locals>>

\* the slip of labelling the envelope of a target that was fetched before
JsonResolves_MarksRepeat(c, responseData) ==
  LET envelope == Envelope(apiTypeOf[c], targetUrl[c], CORS_PROXIES[i[c] + 1], responseData)
      repeat == \E b \in Calls : b # c /\ stored[b] # Null /\ targetUrl[b] = targetUrl[c]
  IN
  /\ pc[c] = "fetching"
  /\ StoreResult(IF repeat
                   THEN [envelope EXCEPT !.source = @ \o " (repeat)"]
                   ELSE envelope)
  /\ stored' = [stored EXCEPT ![c] = data']
  /\ successCalls' = [successCalls EXCEPT ![c] =
       IF options.onSuccess = "absent" THEN @ ELSE Append(@, responseData)]
  /\ IF options.onSuccess = "throws"
       THEN Continue(c, "success", responseData, FALSE)
       ELSE /\ attempts' = [attempts EXCEPT ![c] = Closed(@, "success", responseData)]
            /\ result' = [result EXCEPT ![c] = Fulfilled(responseData)]
            /\ pc' = [pc EXCEPT ![c] = "resolved"]
            /\ UNCHANGED <<i, error, errorCalls, storedError>>
  /\ lastOp' = "continuation"
  /\ UNCHANGED <<options, locals>>

\* await fetch(fullUrl) resolves with response.ok and await response.json()
\* resolves with responseData: the envelope is stored and onSuccess is called,
\* all inside the try block, so that an exception thrown by onSuccess lands in
\* the catch block and the loop goes on
JsonResolves(c, responseData) ==
  /\ pc[c] = "fetching"
  /\ StoreResult(Envelope(apiTypeOf[c], targetUrl[c], CORS_PROXIES[i[c] + 1], responseData))
  /\ stored' = [stored EXCEPT ![c] = data']
  /\ successCalls' = [successCalls EXCEPT ![c] =
       IF options.onSuccess = "absent" THEN @ ELSE Append(@, responseData)]
  /\ IF options.onSuccess = "throws"
       THEN Continue(c, "success", responseData, FALSE)
       ELSE /\ attempts' = [attempts EXCEPT ![c] = Closed(@, "success", responseData)]
            /\ result' = [result EXCEPT ![c] = Fulfilled(responseData)]
            /\ pc' = [pc EXCEPT ![c] = "resolved"]
            /\ UNCHANGED <<i, error, errorCalls, storedError>>
  /\ lastOp' = "continuation"
  /\ UNCHANGED <<options, locals>>

(* ------------------------------------------------------------------ *)
(* clearData                                                           *)
(* ------------------------------------------------------------------ *)

\* a reset that also abandons the invocations in flight
ClearData_Cancels ==
  /\ data' = Null
  /\ error' = Null
  /\ pc' = [c \in Calls |-> IF pc[c] = "fetching" THEN "rejected" ELSE pc[c]]
  /\ lastOp' = "clearData"
  /\ UNCHANGED <<loading, options, locals, i, attempts, successCalls, errorCalls, result,
                 stored, storedError>>

\* a reset that also ends the loading phase
ClearData_ResetsLoading ==
  /\ data' = Null
  /\ error' = Null
  /\ loading' = FALSE
  /\ lastOp' = "clearData"
  /\ UNCHANGED <<options, pc, locals, i, attempts, successCalls, errorCalls, result, stored,
                 storedError>>

\* setData(null); setError(null)
ClearData ==
  /\ data' = Null
  /\ error' = Null
  /\ lastOp' = "clearData"
  /\ UNCHANGED <<loading, options, pc, locals, i, attempts, successCalls, errorCalls,
                 result, stored, storedError>>

(* ------------------------------------------------------------------ *)
(* Specification                                                       *)
(* ------------------------------------------------------------------ *)

Next ==
  \/ \E c \in Calls, request \in Requests :
       UNCHANGED <<modes, aside>> /\ FetchData(c, request.endpoint, request.apiType)
  \/ \E c \in Calls : UNCHANGED <<modes, aside>> /\ FetchRejects(c)
  \/ \E c \in Calls : UNCHANGED <<modes, aside>> /\ HttpError(c)
  \/ \E c \in Calls : UNCHANGED <<modes, aside>> /\ JsonRejects(c)
  \/ \E c \in Calls : UNCHANGED <<modes, aside>> /\ JsonResolves(c, UpstreamBody(endpointOf[c]))
  \/ UNCHANGED <<modes, aside>> /\ ClearData

Spec == Init /\ [][Next]_vars

\* the request invocation c is waiting for completes, in one of the four ways
Completes(c) ==
  /\ UNCHANGED <<modes, aside>>
  /\ \/ FetchRejects(c)
     \/ HttpError(c)
     \/ JsonRejects(c)
     \/ JsonResolves(c, UpstreamBody(endpointOf[c]))

\* every run of the hook in which, as long as a request is outstanding, some
\* outstanding request completes
SpecLive == Init /\ [][Next]_vars /\ WF_vars(\E c \in Calls : Completes(c))

\* the runs in which every later invocation starts while the one before it is
\* still in flight
NextOverlap ==
  \/ \E c \in Calls, request \in Requests :
       /\ UNCHANGED <<modes, aside>>
       /\ c > 1 => pc[c - 1] = "fetching"
       /\ FetchData(c, request.endpoint, request.apiType)
  \/ \E c \in Calls : UNCHANGED <<modes, aside>> /\ FetchRejects(c)
  \/ \E c \in Calls : UNCHANGED <<modes, aside>> /\ HttpError(c)
  \/ \E c \in Calls : UNCHANGED <<modes, aside>> /\ JsonRejects(c)
  \/ \E c \in Calls : UNCHANGED <<modes, aside>> /\ JsonResolves(c, UpstreamBody(endpointOf[c]))
  \/ UNCHANGED <<modes, aside>> /\ ClearData

SpecOverlap == Init /\ [][NextOverlap]_vars

\* the usage of NHLDataDemo (src/unnamed/part_003), kept to the letter: no
\* callback throws, an invocation starts only when none is in flight (the
\* buttons are disabled while loading), and clearData is not called while an
\* invocation is in flight
InitDemo ==
  /\ Init
  /\ options.onSuccess # "throws"
  /\ options.onError # "throws"

NextDemo ==
  \/ \E c \in Calls, request \in Requests :
       /\ UNCHANGED <<modes, aside>>
       /\ \A b \in Calls : pc[b] # "fetching"
       /\ FetchData(c, request.endpoint, request.apiType)
  \/ \E c \in Calls : UNCHANGED <<modes, aside>> /\ FetchRejects(c)
  \/ \E c \in Calls : UNCHANGED <<modes, aside>> /\ HttpError(c)
  \/ \E c \in Calls : UNCHANGED <<modes, aside>> /\ JsonRejects(c)
  \/ \E c \in Calls : UNCHANGED <<modes, aside>> /\ JsonResolves(c, UpstreamBody(endpointOf[c]))
  \/ /\ UNCHANGED <<modes, aside>>
     /\ \A b \in Calls : pc[b] # "fetching"
     /\ ClearData

SpecDemo == InitDemo /\ [][NextDemo]_vars

\* the catch block of invocation c is entered for a failure of this kind
Observe(c, kind) == modes' = [modes EXCEPT ![c] = @ \cup {kind}]

\* the runs in which an invocation starts only when none is in flight and
\* clearData is not called, with the way each attempt failed on record
NextModes ==
  \/ \E c \in Calls, request \in Requests :
       /\ UNCHANGED <<modes, aside>>
       /\ \A b \in Calls : pc[b] # "fetching"
       /\ FetchData(c, request.endpoint, request.apiType)
  \/ \E c \in Calls : Observe(c, "network fault") /\ UNCHANGED aside /\ FetchRejects(c)
  \/ \E c \in Calls : Observe(c, "http status") /\ UNCHANGED aside /\ HttpError(c)
  \/ \E c \in Calls : Observe(c, "decode failure") /\ UNCHANGED aside /\ JsonRejects(c)
  \/ \E c \in Calls : UNCHANGED <<modes, aside>> /\ JsonResolves(c, UpstreamBody(endpointOf[c]))

SpecModes == Init /\ [][NextModes]_vars

(* ------------------------------------------------------------------ *)
(* Calls of the endpoint library                                       *)
(* ------------------------------------------------------------------ *)

\* each function is called with arguments drawn from the inputs; the functions
\* are arrow functions over their parameters and module constants, so a call
\* leaves the hook as it is
CallTeamSchedule(teamCode, season) ==
  /\ lastCall' = LibraryCall("teamSchedule", teamCode, season,
                             teamSchedule(teamCode, season), FALSE)
  /\ UNCHANGED <<hook, modes, peer, page>>

CallGetTeamSchedule(teamCode, season) ==
  /\ lastCall' = LibraryCall("getTeamSchedule", teamCode, season,
                             getTeamSchedule(teamCode, season), FALSE)
  /\ UNCHANGED <<hook, modes, peer, page>>

CallTeamRoster(teamCode) ==
  /\ lastCall' = LibraryCall("teamRoster", teamCode, Null, teamRoster(teamCode), FALSE)
  /\ UNCHANGED <<hook, modes, peer, page>>

CallGetTeamRoster(teamCode) ==
  /\ lastCall' = LibraryCall("getTeamRoster", teamCode, Null, getTeamRoster(teamCode), FALSE)
  /\ UNCHANGED <<hook, modes, peer, page>>

CallTeamStats(teamCode, season) ==
  /\ lastCall' = LibraryCall("teamStats", teamCode, season,
                             teamStats(teamCode, season), FALSE)
  /\ UNCHANGED <<hook, modes, peer, page>>

CallGetTeamStats(teamCode, season) ==
  /\ lastCall' = LibraryCall("getTeamStats", teamCode, season,
                             getTeamStats(teamCode, season), FALSE)
  /\ UNCHANGED <<hook, modes, peer, page>>

CallGameDetails(gameId) ==
  /\ lastCall' = LibraryCall("gameDetails", gameId, Null, gameDetails(gameId), FALSE)
  /\ UNCHANGED <<hook, modes, peer, page>>

CallPlayerProfile(playerId) ==
  /\ lastCall' = LibraryCall("playerProfile", playerId, Null, playerProfile(playerId), FALSE)
  /\ UNCHANGED <<hook, modes, peer, page>>

\* the helpers without parameters
CallGetCurrentSchedule ==
  /\ lastCall' = LibraryCall("getCurrentSchedule", "", Null, getCurrentSchedule, FALSE)
  /\ UNCHANGED <<hook, modes, peer, page>>

CallGetCurrentStandings ==
  /\ lastCall' = LibraryCall("getCurrentStandings", "", Null, getCurrentStandings, FALSE)
  /\ UNCHANGED <<hook, modes, peer, page>>

CallGetPlayerLeaders ==
  /\ lastCall' = LibraryCall("getPlayerLeaders", "", Null, getPlayerLeaders, FALSE)
  /\ UNCHANGED <<hook, modes, peer, page>>

CallGetGoalieLeaders ==
  /\ lastCall' = LibraryCall("getGoalieLeaders", "", Null, getGoalieLeaders, FALSE)
  /\ UNCHANGED <<hook, modes, peer, page>>

CallIsValidTeamCode(code) ==
  /\ lastCall' = LibraryCall("isValidTeamCode", code, Null, "", isValidTeamCode(code))
  /\ UNCHANGED <<hook, modes, peer, page>>

NextLibrary ==
  \/ \E teamCode \in TeamCodeInputs, season \in SeasonInputs : CallTeamSchedule(teamCode, season)
  \/ \E teamCode \in TeamCodeInputs, season \in SeasonInputs : CallGetTeamSchedule(teamCode, season)
  \/ \E teamCode \in TeamCodeInputs : CallTeamRoster(teamCode)
  \/ \E teamCode \in TeamCodeInputs : CallGetTeamRoster(teamCode)
  \/ \E teamCode \in TeamCodeInputs, season \in SeasonInputs : CallTeamStats(teamCode, season)
  \/ \E teamCode \in TeamCodeInputs, season \in SeasonInputs : CallGetTeamStats(teamCode, season)
  \/ \E gameId \in IdInputs : CallGameDetails(gameId)
  \/ \E playerId \in IdInputs : CallPlayerProfile(playerId)
  \/ \E code \in TeamCodeInputs : CallIsValidTeamCode(code)
  \/ CallGetCurrentSchedule
  \/ CallGetCurrentStandings
  \/ CallGetPlayerLeaders
  \/ CallGetGoalieLeaders

SpecLibrary == Init /\ [][NextLibrary]_vars

(* ------------------------------------------------------------------ *)
(* A second hook instance                                              *)
(* ------------------------------------------------------------------ *)

\* Another component calls useNHLAPI() without options: it gets state cells
\* of its own (the useState calls run once per instance) and a fetchData and a
\* clearData that close over the setters of those cells.  It makes one
\* invocation at a time.

\* what the other component asks for: fetchData('/team?a=b c', 'stats')
PeerRequest ==
  [endpoint |-> <<"/","t","e","a","m","?","a","=","b"," ","c">>, apiType |-> StatsKey]

PeerTarget == TargetUrl(PeerRequest.endpoint, ApiTypeParam(PeerRequest.apiType))

\* the slip of keeping the payload in a cell the instances share
PeerJsonResolves_SharedData ==
  /\ peer.pc = "fetching"
  /\ peer' = [peer EXCEPT !.loading = FALSE, !.pc = "resolved"]
  /\ data' = Some(Envelope(ApiTypeParam(PeerRequest.apiType), PeerTarget,
                           CORS_PROXIES[peer.i + 1], UpstreamBody(PeerRequest.endpoint)))
  /\ UNCHANGED <<loading, error, options, pc, locals, i, attempts, successCalls,
                 errorCalls, result, lastOp, stored, storedError, modes, lastCall, page>>

PeerFetchData ==
  /\ peer.pc # "fetching"
  /\ peer' = [data |-> Null, loading |-> TRUE, error |-> Null, pc |-> "fetching", i |-> 0]
  /\ UNCHANGED <<hook, modes, lastCall, page>>

\* an attempt of the peer's invocation fails, in any of the three ways
PeerAttemptFails ==
  /\ peer.pc = "fetching"
  /\ peer' = IF peer.i + 1 < Len(CORS_PROXIES)
               THEN [peer EXCEPT !.i = @ + 1]
               ELSE [peer EXCEPT !.error = Some(ErrorMsgOf[PeerTarget]),
                                 !.loading = FALSE, !.pc = "rejected"]
  /\ UNCHANGED <<hook, modes, lastCall, page>>

PeerJsonResolves ==
  /\ peer.pc = "fetching"
  /\ peer' = [peer EXCEPT
       !.data = Some(Envelope(ApiTypeParam(PeerRequest.apiType), PeerTarget,
                              CORS_PROXIES[peer.i + 1], UpstreamBody(PeerRequest.endpoint))),
       !.loading = FALSE, !.pc = "resolved"]
  /\ UNCHANGED <<hook, modes, lastCall, page>>

PeerClearData ==
  /\ peer' = [peer EXCEPT !.data = Null, !.error = Null]
  /\ UNCHANGED <<hook, modes, lastCall, page>>

\* the runs of two instances side by side: on the first an invocation starts
\* only when none is in flight
NextInstances ==
  \/ \E c \in Calls, request \in Requests :
       /\ UNCHANGED <<modes, aside>>
       /\ \A b \in Calls : pc[b] # "fetching"
       /\ FetchData(c, request.endpoint, request.apiType)
  \/ \E c \in Calls : UNCHANGED <<modes, aside>> /\ FetchRejects(c)
  \/ \E c \in Calls : UNCHANGED <<modes, aside>> /\ HttpError(c)
  \/ \E c \in Calls : UNCHANGED <<modes, aside>> /\ JsonRejects(c)
  \/ \E c \in Calls : UNCHANGED <<modes, aside>> /\ JsonResolves(c, UpstreamBody(endpointOf[c]))
  \/ UNCHANGED <<modes, aside>> /\ ClearData
  \/ PeerFetchData
  \/ PeerAttemptFails
  \/ PeerJsonResolves
  \/ PeerClearData

SpecInstances == Init /\ [][NextInstances]_vars

(* ------------------------------------------------------------------ *)
(* The testers of the Index page                                       *)
(* ------------------------------------------------------------------ *)

\* The Index page (src/unnamed/part_001) holds connectionStatus and apiData
\* and six async testers with a relay loop of their own over the same three
\* proxies.  Every button is disabled while connectionStatus is 'testing',
\* so one tester runs at a time.  toast(...) shows a notification and
\* returns; page.toast is the argument of the last call.

\* testers with one target, and testers with a list of endpoints
SingleTesters == { "testNHLConnection", "testStandingsAPI", "testAvalancheRoster" }

MultiTesters == { "testStatsAPI", "test2025Season", "testAvalancheData" }

Testers == SingleTesters \cup MultiTesters

\* targetUrl of a single tester (a list of one), or the endpoint list
TesterEndpoints(t) ==
  CASE t = "testNHLConnection" -> << "https://api-web.nhle.com/v1/schedule/now" >>
    [] t = "testStandingsAPI" -> << "https://api-web.nhle.com/v1/standings/now" >>
    [] t = "testAvalancheRoster" -> << "https://api-web.nhle.com/v1/roster/COL/current" >>
    [] t = "testStatsAPI" ->
         << "https://api.nhle.com/stats/rest/en/team",
            "https://api.nhle.com/stats/rest/en/leaders/skaters/points",
            "https://api.nhle.com/stats/rest/en/season" >>
    [] t = "test2025Season" ->
         << "https://api-web.nhle.com/v1/schedule/2025-26/2025-10-01",
            "https://api-web.nhle.com/v1/season/20252026",
            "https://api-web.nhle.com/v1/schedule/20252026",
            "https://api-web.nhle.com/v1/club-schedule-season/TOR/20252026" >>
    [] t = "testAvalancheData" ->
         << "https://api-web.nhle.com/v1/club-schedule-season/COL/20252026",
            "https://api-web.nhle.com/v1/roster/COL/current",
            "https://api-web.nhle.com/v1/club-stats/COL/20252026/2" >>

\* the source label a tester writes into apiData
TesterSource(t) ==
  CASE t = "testNHLConnection" -> "NHL Web API"
    [] t = "testStandingsAPI" -> "NHL Standings API"
    [] t = "testAvalancheRoster" -> "Colorado Avalanche Roster API"
    [] t = "testStatsAPI" -> "NHL Stats API"
    [] t = "test2025Season" -> "2025-26 NHL Season API"
    [] t = "testAvalancheData" -> "Colorado Avalanche API"

\* the titles of the toasts of a tester
SuccessTitle(t) ==
  CASE t = "testNHLConnection" -> "NHL API Connection Successful!"
    [] t = "testStandingsAPI" -> "NHL Standings API Connection Successful!"
    [] t = "testAvalancheRoster" -> "Colorado Avalanche Roster Retrieved!"
    [] t = "testStatsAPI" -> "NHL Stats API Connection Successful!"
    [] t = "test2025Season" -> "2025-26 Season API Connection Successful!"
    [] t = "testAvalancheData" -> "Colorado Avalanche Data Retrieved!"

FailureTitle(t) ==
  CASE t = "testNHLConnection" -> "NHL API Connection Failed"
    [] t = "testStandingsAPI" -> "NHL Standings API Connection Failed"
    [] t = "testAvalancheRoster" -> "Colorado Avalanche Roster API Failed"
    [] t = "testStatsAPI" -> "NHL Stats API Connection Failed"
    [] t = "test2025Season" -> "2025-26 Season API Connection Failed"
    [] t = "testAvalancheData" -> "Colorado Avalanche API Failed"

\* the object passed to setApiData: testNHLConnection and testStandingsAPI
\* leave the endpoint out
ApiData(t, target, proxyUrl, responseData) ==
  IF t \in { "testNHLConnection", "testStandingsAPI" }
    THEN [ source |-> TesterSource(t), proxy |-> proxyUrl, data |-> responseData ]
    ELSE [ source |-> TesterSource(t), endpoint |-> target, proxy |-> proxyUrl,
           data |-> responseData ]

\* what await response.json() yields for a target
PageBody(target) == "document of " \o target

\* fetch(fullUrl) for endpoint e (0-based) through proxy k (0-based)
PageAttempt(t, e, k) ==
  [ endpoint |-> e, proxy |-> k, target |-> TesterEndpoints(t)[e + 1],
    outcome |-> "outstanding" ]

\* the log of the page with its last entry closed
PageClosed(outcome) ==
  [page.log EXCEPT ![Len(page.log)] = [@ EXCEPT !.outcome = outcome]]

\* setConnectionStatus('testing'); setApiData(null); then the first fetch
StartTester(t) ==
  /\ page.connectionStatus # "testing"
  /\ page' = [page EXCEPT !.connectionStatus = "testing", !.apiData = Null,
                          !.tester = t, !.pc = "fetching",
                          !.endpointIndex = 0, !.i = 0,
                          !.log = << PageAttempt(t, 0, 0) >>]
  /\ UNCHANGED <<hook, modes, lastCall, peer>>

\* setConnectionStatus('error') and the destructive toast; the tester returns
PageGivesUp ==
  page' = [page EXCEPT !.connectionStatus = "error",
                       !.toast = Some([title |-> FailureTitle(page.tester),
                                       variant |-> "destructive"]),
                       !.pc = "returned",
                       !.log = PageClosed("failed")]

\* the slip of comparing the index with the length, so that the last proxy's
\* failure is never told
CatchSingle_OffByOne ==
  IF page.i = Len(CORS_PROXIES)
    THEN PageGivesUp
    ELSE IF page.i + 1 < Len(CORS_PROXIES)
      THEN page' = [page EXCEPT !.i = @ + 1,
                     !.log = Append(PageClosed("failed"),
                                    PageAttempt(page.tester, 0, page.i + 1))]
      ELSE page' = [page EXCEPT !.pc = "returned", !.log = PageClosed("failed")]

\* the catch block of a single tester: at the last proxy it sets 'error' and
\* toasts, and the loop ends; otherwise the loop goes on to the next proxy
CatchSingle ==
  IF page.i = Len(CORS_PROXIES) - 1
    THEN PageGivesUp
    ELSE page' = [page EXCEPT !.i = @ + 1,
                   !.log = Append(PageClosed("failed"),
                                  PageAttempt(page.tester, 0, page.i + 1))]

\* the slip of the single testers' catch block left in a multi tester: it
\* gives up when the last proxy fails for the first endpoint
CatchMulti_GivesUpAtLastProxy ==
  IF page.i = Len(CORS_PROXIES) - 1
    THEN PageGivesUp
    ELSE page' = [page EXCEPT !.i = @ + 1,
                   !.log = Append(PageClosed("failed"),
                                  PageAttempt(page.tester, page.endpointIndex, page.i + 1))]

\* the catch block of a multi tester only logs: the inner loop goes on to the
\* next proxy, then the outer loop to the next endpoint, and after both loops
\* come setConnectionStatus('error') and the toast
CatchMulti ==
  IF page.i + 1 < Len(CORS_PROXIES)
    THEN page' = [page EXCEPT !.i = @ + 1,
                   !.log = Append(PageClosed("failed"),
                                  PageAttempt(page.tester, page.endpointIndex, page.i + 1))]
    ELSE IF page.endpointIndex + 1 < Len(TesterEndpoints(page.tester))
      THEN page' = [page EXCEPT !.endpointIndex = @ + 1, !.i = 0,
                     !.log = Append(PageClosed("failed"),
                                    PageAttempt(page.tester, page.endpointIndex + 1, 0))]
      ELSE PageGivesUp

\* an attempt of a single tester fails: fetch rejects, the response is not
\* ok, or response.json() rejects; all three land in the catch block
SingleAttemptFails ==
  /\ page.pc = "fetching"
  /\ page.tester \in SingleTesters
  /\ CatchSingle
  /\ UNCHANGED <<hook, modes, lastCall, peer>>

\* the same for a multi tester
MultiAttemptFails ==
  /\ page.pc = "fetching"
  /\ page.tester \in MultiTesters
  /\ CatchMulti
  /\ UNCHANGED <<hook, modes, lastCall, peer>>

\* the response is ok and its body parses: setApiData({...});
\* setConnectionStatus('success'); toast({...}); return
PageAttemptSucceeds ==
  /\ page.pc = "fetching"
  /\ page' = [page EXCEPT
       !.apiData = Some(ApiData(page.tester,
                                TesterEndpoints(page.tester)[page.endpointIndex + 1],
                                CORS_PROXIES[page.i + 1],
                                PageBody(TesterEndpoints(page.tester)[page.endpointIndex + 1]))),
       !.connectionStatus = "success",
       !.toast = Some([title |-> SuccessTitle(page.tester), variant |-> "default"]),
       !.pc = "returned",
       !.log = PageClosed("success")]
  /\ UNCHANGED <<hook, modes, lastCall, peer>>

\* the Clear Data button, rendered under {apiData && ...}: setApiData(null)
ClearApiData ==
  /\ page.apiData # Null
  /\ page' = [page EXCEPT !.apiData = Null]
  /\ UNCHANGED <<hook, modes, lastCall, peer>>

NextPage ==
  \/ \E t \in Testers : StartTester(t)
  \/ SingleAttemptFails
  \/ MultiAttemptFails
  \/ PageAttemptSucceeds
  \/ ClearApiData

SpecPage == Init /\ [][NextPage]_vars

(* ------------------------------------------------------------------ *)
(* Vocabulary of the properties                                        *)
(* ------------------------------------------------------------------ *)

Settled(c) == pc[c] \in {"resolved", "rejected"}

InFlight(c) == pc[c] = "fetching"

\* the attempt on proxy k is the first of invocation c that got a 2xx response
\* with a parseable body
FirstSuccessAt(c, k) ==
  /\ Len(attempts[c]) >= k + 1
  /\ attempts[c][k + 1].outcome = "success"
  /\ \A j \in 1..k : attempts[c][j].outcome = "failed"

\* every attempt of invocation c failed and there is one per proxy
AllRelaysFailed(c) ==
  /\ Len(attempts[c]) = Len(CORS_PROXIES)
  /\ \A j \in 1..Len(attempts[c]) : attempts[c][j].outcome = "failed"

\* in this step an attempt of invocation c succeeds
AttemptSucceeds(c) ==
  /\ attempts[c] # <<>>
  /\ attempts[c][Len(attempts[c])].outcome = "outstanding"
  /\ attempts'[c][Len(attempts[c])].outcome = "success"

\* in this step invocation c leaves the loop with no proxy left
Exhausts(c) == pc[c] = "fetching" /\ pc'[c] = "rejected"

\* percent-encoding as the URI standard tabulates it for the characters that
\* occur in the model's target URLs: letters, digits, '-' and '.' stand for
\* themselves
PercentEscape(ch) ==
  CASE ch = ":" -> "%3A"
    [] ch = "/" -> "%2F"
    [] ch = "?" -> "%3F"
    [] ch = "=" -> "%3D"
    [] ch = " " -> "%20"
    [] OTHER    -> ch

RECURSIVE PercentEncoded(_)
PercentEncoded(s) ==
  IF s = <<>> THEN "" ELSE PercentEscape(Head(s)) \o PercentEncoded(Tail(s))

(* ------------------------------------------------------------------ *)
(* C1                                                                  *)
(* ------------------------------------------------------------------ *)

\* C1: when relay k is the first relay of an invocation to return a 2xx response
\* with a parseable body, then in that step the invocation resolves with that
\* relay's payload, the stored envelope records relay k, and the invocation's
\* attempts are exactly relays 0..k, once each, in ascending order.
C1_FirstSuccessWins ==
  [][\A c \in Calls, k \in 0..(Len(CORS_PROXIES) - 1) :
       (~FirstSuccessAt(c, k) /\ FirstSuccessAt(c, k)') =>
         /\ result'[c] = Fulfilled(attempts'[c][k + 1].payload)
         /\ data' # Null
         /\ data'[1].proxy = CORS_PROXIES[k + 1]
         /\ Len(attempts'[c]) = k + 1
         /\ \A j \in 1..(k + 1) : attempts'[c][j].index = j - 1]_vars

(* ------------------------------------------------------------------ *)
(* C2                                                                  *)
(* ------------------------------------------------------------------ *)

\* C2: within one invocation no relay is attempted after a relay has returned a
\* 2xx response with a parseable body, whatever onSuccess does: a successful
\* attempt is the last entry of the invocation's attempt log.
C2_NoAttemptAfterSuccess ==
  \A c \in Calls : \A j \in 1..Len(attempts[c]) :
    attempts[c][j].outcome = "success" => j = Len(attempts[c])

(* ------------------------------------------------------------------ *)
(* C3                                                                  *)
(* ------------------------------------------------------------------ *)

\* C3 as stated: when all three relays have failed for target T, the invocation
\* rejects with the message "Failed to fetch data from " + T, the stored error
\* is that string and onError (if any) receives that string.
C3_ExhaustionMessage_AsStated ==
  [][\A c \in Calls :
       (Exhausts(c) /\ AllRelaysFailed(c)') =>
         LET msg == "Failed to fetch data from " \o Str(targetUrl[c]) IN
           /\ result'[c] = Rejected(msg)
           /\ error' = Some(msg)
           /\ options.onError # "absent" => errorCalls'[c] = <<msg>>]_vars

\* C3 amended: when all three relays have failed for target T, the stored error
\* is "Failed to fetch NHL data from " + T, onError (if any) receives that
\* string, and the invocation rejects with that message, unless onError itself
\* throws, in which case the invocation rejects with the callback's exception.
C3_ExhaustionMessage ==
  [][\A c \in Calls :
       (Exhausts(c) /\ AllRelaysFailed(c)') =>
         LET msg == "Failed to fetch NHL data from " \o Str(targetUrl[c]) IN
           /\ error' = Some(msg)
           /\ options.onError # "absent" => errorCalls'[c] = <<msg>>
           /\ options.onError = "absent" => errorCalls'[c] = <<>>
           /\ options.onError # "throws" => result'[c] = Rejected(msg)
           /\ options.onError = "throws" => result'[c] = Rejected(CallbackException)]_vars

\* an invocation for the web standings endpoint has exhausted the three relays
\* and its message stands in error, was handed to onError and rejects the promise
C3_Witness ==
  \E c \in Calls :
    /\ pc[c] = "rejected"
    /\ AllRelaysFailed(c)
    /\ error = Some("Failed to fetch NHL data from https://api-web.nhle.com/v1/standings/now")
    /\ errorCalls[c] = error
    /\ result[c].reason = error[1]

(* ------------------------------------------------------------------ *)
(* C4                                                                  *)
(* ------------------------------------------------------------------ *)

\* C4: the URL requested from the third relay (append-raw-path mode) is the
\* relay prefix followed by the target URL with no percent-encoding.
C4_ThirdRelayRawPath ==
  \A c \in Calls : \A j \in 1..Len(attempts[c]) :
    attempts[c][j].index = 2 =>
      attempts[c][j].url = "https://cors-anywhere.herokuapp.com/" \o Str(targetUrl[c])

(* ------------------------------------------------------------------ *)
(* C5                                                                  *)
(* ------------------------------------------------------------------ *)

\* C5: the URL requested from each of the first two relays (append-encoded-query
\* mode) is the relay prefix followed by the percent-encoded target URL.
C5_EncodedQueryRelays ==
  \A c \in Calls : \A j \in 1..Len(attempts[c]) :
    /\ attempts[c][j].index = 0 =>
         attempts[c][j].url =
           "https://api.allorigins.win/raw?url=" \o PercentEncoded(targetUrl[c])
    /\ attempts[c][j].index = 1 =>
         attempts[c][j].url = "https://corsproxy.io/?" \o PercentEncoded(targetUrl[c])

\* an invocation has requested the stats target, whose path holds '?', '=' and
\* a blank, from the first relay and then from the second
C5_Witness ==
  \E c \in Calls :
    /\ Len(attempts[c]) >= 2
    /\ attempts[c][1].url =
         "https://api.allorigins.win/raw?url=https%3A%2F%2Fapi.nhle.com%2Fstats%2Frest%2Fen%2Fteam%3Fa%3Db%20c"
    /\ attempts[c][2].url =
         "https://corsproxy.io/?https%3A%2F%2Fapi.nhle.com%2Fstats%2Frest%2Fen%2Fteam%3Fa%3Db%20c"

(* ------------------------------------------------------------------ *)
(* C6                                                                  *)
(* ------------------------------------------------------------------ *)

\* C6: under any interleaving of fetchData invocations and clearData calls on
\* one instance, data and error are never both non-null.
C6_DataErrorExclusive == ~(data # Null /\ error # Null)

(* ------------------------------------------------------------------ *)
(* C7                                                                  *)
(* ------------------------------------------------------------------ *)

\* C7: in the state right after a fetchData call, before anything else has run,
\* loading is true, data is null and error is null, whatever the state was
\* before the call.
C7_InFlightAfterFetchData ==
  lastOp = "fetchData" => (loading = TRUE /\ data = Null /\ error = Null)

\* a second fetchData has just been called after the first invocation had
\* resolved and stored its envelope
C7_Witness ==
  /\ lastOp = "fetchData"
  /\ pc[1] = "resolved"
  /\ pc[2] = "fetching"
  /\ attempts[2][1].outcome = "outstanding"
  /\ loading = TRUE

(* ------------------------------------------------------------------ *)
(* C8                                                                  *)
(* ------------------------------------------------------------------ *)

\* C8: in a state where some invocation has settled, none is in flight and
\* loading is false, exactly one of data and error is non-null.  Stated for the
\* states a settlement leaves (the last thing that ran is a continuation of
\* fetchData), so that a clearData after the settlement is not what refutes it.
C8_ExactlyOneAfterSettlement ==
  ( /\ lastOp = "continuation"
    /\ \E c \in Calls : Settled(c)
    /\ \A c \in Calls : ~InFlight(c)
    /\ loading = FALSE )
    => ((data # Null) # (error # Null))

(* ------------------------------------------------------------------ *)
(* C9                                                                  *)
(* ------------------------------------------------------------------ *)

\* C9 as stated: after clearData returns, from whatever state it was called,
\* loading is false, data is null and error is null.
C9_IdleAfterClearData_AsStated ==
  lastOp = "clearData" => (loading = FALSE /\ data = Null /\ error = Null)

\* C9 amended: clearData sets data and error to null and leaves loading as it
\* was, so the controller is idle after it only when loading was already false;
\* called while loading is true it leaves loading true.
C9_ClearDataKeepsLoading ==
  [][lastOp' = "clearData" => (data' = Null /\ error' = Null /\ loading' = loading)]_vars

\* clearData has just run while an invocation is in flight, and loading is
\* still true
C9_Witness ==
  /\ lastOp = "clearData"
  /\ \E c \in Calls : InFlight(c)
  /\ loading = TRUE
  /\ data = Null
  /\ error = Null

(* ------------------------------------------------------------------ *)
(* C10                                                                 *)
(* ------------------------------------------------------------------ *)

\* C10: in the step in which a relay attempt of an invocation succeeds, data
\* becomes the envelope of that attempt, loading becomes false, error is null,
\* onSuccess (if given) is called with the decoded payload, and the promise
\* resolves with the decoded payload.
C10_SuccessSettles ==
  [][\A c \in Calls :
       AttemptSucceeds(c) =>
         LET payload == attempts'[c][Len(attempts[c])].payload IN
           /\ data' # Null
           /\ data'[1].data = payload
           /\ data'[1].proxy = CORS_PROXIES[i[c] + 1]
           /\ loading' = FALSE
           /\ error' = Null
           /\ options.onSuccess # "absent" =>
                successCalls'[c] = Append(successCalls[c], payload)
           /\ result'[c] = Fulfilled(payload)]_vars

(* ------------------------------------------------------------------ *)
(* C11                                                                 *)
(* ------------------------------------------------------------------ *)

\* the label the envelope carries for a host family
SourceLabel(apiType) ==
  IF apiType = <<"s","t","a","t","s">> THEN "NHL STATS API" ELSE "NHL WEB API"

\* base URL of a host family, as the API documentation gives it
BaseUrl(apiType) ==
  IF apiType = <<"s","t","a","t","s">>
    THEN "https://api.nhle.com/stats/rest/en"
    ELSE "https://api-web.nhle.com/v1"

\* prefix of relay k (0-based), as the integration document lists them
RelayPrefix(k) ==
  CASE k = 0 -> "https://api.allorigins.win/raw?url="
    [] k = 1 -> "https://corsproxy.io/?"
    [] k = 2 -> "https://cors-anywhere.herokuapp.com/"

\* C11: in the step in which an attempt of an invocation succeeds, the stored
\* envelope is exactly: the source label of the invocation's host family
\* ('NHL WEB API' or 'NHL STATS API'), the target URL (base URL followed by the
\* path, not the URL requested from the relay), the prefix of the relay whose
\* attempt succeeded, and the decoded payload.
C11_EnvelopeFields ==
  [][\A c \in Calls :
       AttemptSucceeds(c) =>
         LET done == attempts'[c][Len(attempts[c])] IN
           data' = Some([ source   |-> SourceLabel(apiTypeOf[c]),
                          endpoint |-> BaseUrl(apiTypeOf[c]) \o Str(endpointOf[c]),
                          proxy    |-> RelayPrefix(done.index),
                          data     |-> done.payload ])]_vars

\* the stats request answered by the second relay after the first failed
C11_Witness ==
  /\ data = Some([ source   |-> "NHL STATS API",
                   endpoint |-> "https://api.nhle.com/stats/rest/en/team?a=b c",
                   proxy    |-> "https://corsproxy.io/?",
                   data     |-> "team document" ])
  /\ \E c \in Calls :
       /\ pc[c] = "resolved"
       /\ Len(attempts[c]) = 2
       /\ attempts[c][2].outcome = "success"
       /\ attempts[c][2].url # data[1].endpoint

(* ------------------------------------------------------------------ *)
(* C12                                                                 *)
(* ------------------------------------------------------------------ *)

\* C12: an invocation that has settled has called exactly one of the supplied
\* callbacks, exactly once: after a success onSuccess (if supplied) was called
\* once and onError never; after exhaustion onError (if supplied) was called
\* once and onSuccess never.
C12_OneCallbackOnce ==
  \A c \in Calls :
    /\ pc[c] = "resolved" =>
         /\ errorCalls[c] = <<>>
         /\ options.onSuccess # "absent" => Len(successCalls[c]) = 1
    /\ pc[c] = "rejected" =>
         /\ successCalls[c] = <<>>
         /\ options.onError # "absent" => Len(errorCalls[c]) = 1

(* ------------------------------------------------------------------ *)
(* C13                                                                 *)
(* ------------------------------------------------------------------ *)

\* the envelope of invocation c for relay k (0-based) and a payload, and its
\* exhaustion message, spelled from the documented constants
EnvelopeFor(c, k, payload) ==
  [ source   |-> SourceLabel(apiTypeOf[c]),
    endpoint |-> BaseUrl(apiTypeOf[c]) \o Str(endpointOf[c]),
    proxy    |-> RelayPrefix(k),
    data     |-> payload ]

MessageFor(c) ==
  "Failed to fetch NHL data from " \o BaseUrl(apiTypeOf[c]) \o Str(endpointOf[c])

\* in this step invocation c settles
Settles(c) == pc[c] = "fetching" /\ pc'[c] \in {"resolved", "rejected"}

\* C13 (runs in which invocation a + 1 starts while invocation a is in flight):
\* in the step in which the later invocation settles, the earlier one having
\* settled before, the visible state is exactly the later invocation's outcome:
\* its envelope with error null when it resolved, its message with data null
\* when it rejected.
C13_LastSettlementWins ==
  [][\A a \in Calls, b \in Calls :
       (b = a + 1 /\ Settled(a) /\ Settles(b)) =>
         /\ pc'[b] = "resolved" =>
              /\ data' = Some(EnvelopeFor(b, i[b], result'[b].value))
              /\ error' = Null
         /\ pc'[b] = "rejected" =>
              /\ error' = Some(MessageFor(b))
              /\ data' = Null]_vars

(* ------------------------------------------------------------------ *)
(* C14                                                                 *)
(* ------------------------------------------------------------------ *)

\* C14: at any time at most one request of an invocation is outstanding, and
\* every attempt that is followed by a later attempt of the same invocation has
\* completed with a failure (so the request to relay i + 1 was issued only
\* after the attempt on relay i had failed).
C14_SequentialAttempts ==
  \A c \in Calls :
    /\ Cardinality({ j \in 1..Len(attempts[c]) : attempts[c][j].outcome = "outstanding" }) <= 1
    /\ \A j \in 1..Len(attempts[c]) :
         j < Len(attempts[c]) => attempts[c][j].outcome = "failed"

(* ------------------------------------------------------------------ *)
(* C15                                                                 *)
(* ------------------------------------------------------------------ *)

\* the relays invocation c has sent a request to
RelaysAsked(c) == { attempts[c][j].index : j \in 1..Len(attempts[c]) }

\* C15: an invocation never sends two requests to the same relay, so it sends
\* at most three requests and a relay whose attempt failed is not asked again.
C15_NoRelayTwice ==
  \A c \in Calls :
    /\ Cardinality(RelaysAsked(c)) = Len(attempts[c])
    /\ Len(attempts[c]) <= 3
    /\ \A j \in 1..Len(attempts[c]) : \A k \in 1..Len(attempts[c]) :
         (j # k) => attempts[c][j].url # attempts[c][k].url

\* an invocation whose three relays failed, each asked once
C15_Witness ==
  \E c \in Calls :
    /\ pc[c] = "rejected"
    /\ Len(attempts[c]) = 3
    /\ RelaysAsked(c) = {0, 1, 2}
    /\ \A j \in 1..3 : attempts[c][j].outcome = "failed"

(* ------------------------------------------------------------------ *)
(* C16                                                                 *)
(* ------------------------------------------------------------------ *)

\* C16: whatever other invocations did or are doing, an invocation that has
\* started has requests of its own, the j-th of them to relay j - 1 (so the
\* first to relay 0 and the rest in the fixed order), and an invocation that
\* resolved did so with the payload of its own last request.
C16_OwnRequestsInFixedOrder ==
  \A c \in Calls :
    /\ pc[c] # "idle" => attempts[c] # <<>>
    /\ \A j \in 1..Len(attempts[c]) : attempts[c][j].index = j - 1
    /\ pc[c] = "resolved" =>
         /\ attempts[c][Len(attempts[c])].outcome = "success"
         /\ result[c] = Fulfilled(attempts[c][Len(attempts[c])].payload)

\* the first invocation was answered by the second relay; the next invocation
\* for the same target has asked relay 0 all the same
C16_Witness ==
  /\ pc[1] = "resolved"
  /\ Len(attempts[1]) = 2
  /\ attempts[1][2].index = 1
  /\ pc[2] = "fetching"
  /\ targetUrl[2] = targetUrl[1]
  /\ attempts[2][1].index = 0
  /\ attempts[2][1].url = attempts[1][1].url

(* ------------------------------------------------------------------ *)
(* C17                                                                 *)
(* ------------------------------------------------------------------ *)

\* C17 (runs with the way each attempt failed on record): two invocations for
\* the same target whose relays were exhausted, in whatever ways the attempts
\* failed, left the same value in the error state, passed the same value to
\* onError and rejected with the same message; the stored value is the message
\* made of the target URL alone, and so is the rejection unless onError threw
\* its own exception.
C17_ErrorOfTargetOnly ==
  \A c \in Calls : \A d \in Calls :
    (pc[c] = "rejected" /\ pc[d] = "rejected" /\ targetUrl[c] = targetUrl[d]) =>
      /\ storedError[c] = storedError[d]
      /\ errorCalls[c] = errorCalls[d]
      /\ result[c].reason = result[d].reason
      /\ storedError[c] = Some(MessageFor(c))
      /\ result[c].reason \in {MessageFor(c), CallbackException}

\* one invocation lost its relays to network faults, the other to an HTTP
\* error and undecodable bodies
C17_Witness ==
  /\ pc[1] = "rejected" /\ pc[2] = "rejected"
  /\ targetUrl[1] = targetUrl[2]
  /\ AllRelaysFailed(1) /\ AllRelaysFailed(2)
  /\ modes[1] = {"network fault"}
  /\ modes[2] = {"http status", "decode failure"}
  /\ storedError[2] = Some("Failed to fetch NHL data from https://api.nhle.com/stats/rest/en/team?a=b c")
  /\ result[2].reason = "Failed to fetch NHL data from https://api.nhle.com/stats/rest/en/team?a=b c"

(* ------------------------------------------------------------------ *)
(* C18                                                                 *)
(* ------------------------------------------------------------------ *)

\* C18: an invocation has set the error state, called onError or rejected only
\* if it has attempted all three relays and all three attempts failed.
C18_ErrorOnlyAfterAllFailed ==
  \A c \in Calls :
    (storedError[c] # Null \/ errorCalls[c] # <<>> \/ result[c].state = "rejected")
      => AllRelaysFailed(c)

(* ------------------------------------------------------------------ *)
(* C19                                                                 *)
(* ------------------------------------------------------------------ *)

\* what the relays answered to invocation c, attempt by attempt
Responses(c) ==
  [j \in 1..Len(attempts[c]) |-> <<attempts[c][j].outcome, attempts[c][j].payload>>]

\* C19: two invocations with the same path and host family to which the relays
\* answered alike stored the same envelope: same source, same target URL, same
\* relay and same payload.
C19_SameRequestSameEnvelope ==
  \A c \in Calls : \A d \in Calls :
    ( /\ pc[c] # "idle" /\ pc[d] # "idle"
      /\ endpointOf[c] = endpointOf[d]
      /\ apiTypeOf[c] = apiTypeOf[d]
      /\ Responses(c) = Responses(d)
      /\ stored[c] # Null )
    => /\ stored[d] # Null
       /\ stored[c][1].source = stored[d][1].source
       /\ stored[c][1].endpoint = stored[d][1].endpoint
       /\ stored[c][1].proxy = stored[d][1].proxy
       /\ stored[c][1].data = stored[d][1].data

\* the same stats request made twice, answered both times by the second relay
\* after the first failed
C19_Witness ==
  /\ pc[1] = "resolved" /\ pc[2] = "resolved"
  /\ endpointOf[1] = endpointOf[2]
  /\ apiTypeOf[1] = StatsKey /\ apiTypeOf[2] = StatsKey
  /\ Responses(1) = <<<<"failed", "none">>, <<"success", "team document">>>>
  /\ Responses(2) = Responses(1)
  /\ stored[1] = stored[2]
  /\ data = stored[2]
  /\ data[1].proxy = "https://corsproxy.io/?"

(* ------------------------------------------------------------------ *)
(* C20                                                                 *)
(* ------------------------------------------------------------------ *)

\* C20: the target URL of an invocation is 'https://api.nhle.com/stats/rest/en'
\* followed by the caller's path when the caller passed 'stats', and
\* 'https://api-web.nhle.com/v1' followed by the path when the caller passed
\* 'web' or passed no host family.
C20_TargetUrlOfArguments ==
  \A c \in Calls :
    pc[c] # "idle" =>
      /\ apiTypeArg[c] = <<"s","t","a","t","s">> =>
           Str(targetUrl[c]) = "https://api.nhle.com/stats/rest/en" \o Str(endpointOf[c])
      /\ apiTypeArg[c] \in {<<"w","e","b">>, Undefined} =>
           Str(targetUrl[c]) = "https://api-web.nhle.com/v1" \o Str(endpointOf[c])
      /\ apiTypeArg[c] = Undefined => apiTypeOf[c] = <<"w","e","b">>

\* one invocation made without a host family, one made with 'stats'
C20_Witness ==
  \E c \in Calls, d \in Calls :
    /\ pc[c] # "idle" /\ pc[d] # "idle"
    /\ apiTypeArg[c] = Undefined
    /\ Str(targetUrl[c]) = "https://api-web.nhle.com/v1/standings/now"
    /\ apiTypeArg[d] = StatsKey
    /\ Str(targetUrl[d]) = "https://api.nhle.com/stats/rest/en/team?a=b c"

(* ------------------------------------------------------------------ *)
(* C21                                                                 *)
(* ------------------------------------------------------------------ *)

\* the team codes the library enumerates
RecognizedCodes == {"COL", "VGK", "DAL", "LAK"}

\* C21: for a recognized team code c, the team-schedule template (called
\* directly or through the helper) returns '/club-schedule-season/' + c + '/' +
\* s when season s is passed, and when the season is left out the path it
\* returns for the season '20252026'.
C21_TeamSchedulePath ==
  (lastCall.fn \in {"teamSchedule", "getTeamSchedule"} /\ lastCall.teamCode \in RecognizedCodes) =>
    /\ lastCall.season # Null =>
         lastCall.path = "/club-schedule-season/" \o lastCall.teamCode \o "/" \o lastCall.season[1]
    /\ lastCall.season = Null =>
         lastCall.path = "/club-schedule-season/" \o lastCall.teamCode \o "/20252026"
    /\ (lastCall.teamCode = "COL" /\ lastCall.season \in {Null, <<"20252026">>}) =>
         lastCall.path = "/club-schedule-season/COL/20252026"

\* the template called for COL with the season left out
C21_Witness ==
  /\ lastCall.fn = "teamSchedule"
  /\ lastCall.teamCode = "COL"
  /\ lastCall.season = Null
  /\ lastCall.path = "/club-schedule-season/COL/20252026"

(* ------------------------------------------------------------------ *)
(* C22                                                                 *)
(* ------------------------------------------------------------------ *)

\* C22: isValidTeamCode(code) returns true when code is COL, VGK, DAL or LAK
\* and false for every other string, a name such as 'toString' or
\* 'constructor' included.
C22_ValidExactlyEnumerated ==
  lastCall.fn = "isValidTeamCode" =>
    (lastCall.valid <=> lastCall.teamCode \in {"COL", "VGK", "DAL", "LAK"})

(* ------------------------------------------------------------------ *)
(* C23                                                                 *)
(* ------------------------------------------------------------------ *)

\* the season a call was made for: the one passed, or '20252026'
SeasonOf(call) == IF call.season = Null THEN "20252026" ELSE call.season[1]

\* C23: a call of a path function of the endpoint library, for any team code
\* string, recognized or not, returns the template with the code and the
\* season put in as they are, and leaves the state of the hook untouched.
C23_TemplatesVerbatim ==
  [][ /\ UNCHANGED <<data, loading, error, pc, i, attempts, result, successCalls, errorCalls>>
      /\ lastCall'.fn \in {"teamSchedule", "getTeamSchedule"} =>
           lastCall'.path =
             "/club-schedule-season/" \o lastCall'.teamCode \o "/" \o SeasonOf(lastCall')
      /\ lastCall'.fn \in {"teamRoster", "getTeamRoster"} =>
           lastCall'.path = "/roster/" \o lastCall'.teamCode \o "/current"
      /\ lastCall'.fn \in {"teamStats", "getTeamStats"} =>
           lastCall'.path =
             "/club-stats/" \o lastCall'.teamCode \o "/" \o SeasonOf(lastCall') \o "/2"
      /\ lastCall'.fn = "gameDetails" =>
           lastCall'.path = "/gamecenter/" \o lastCall'.teamCode \o "/landing"
      /\ lastCall'.fn = "playerProfile" =>
           lastCall'.path = "/player/" \o lastCall'.teamCode \o "/landing"
    ]_vars

\* the roster template called with a code that is not enumerated
C23_Witness ==
  /\ lastCall.fn = "getTeamRoster"
  /\ lastCall.teamCode = "SEA"
  /\ ~isValidTeamCode(lastCall.teamCode)
  /\ lastCall.path = "/roster/SEA/current"

(* ------------------------------------------------------------------ *)
(* C24                                                                 *)
(* ------------------------------------------------------------------ *)

\* the state cells of the first instance, and of the second
Cells == <<data, loading, error>>

PeerCells == <<peer.data, peer.loading, peer.error>>

\* C24 (two instances side by side): a step that changes loading, data or error
\* of an instance is a fetchData call, a clearData call or a continuation of an
\* invocation of that same instance and leaves the other instance as it was;
\* and a step of one invocation leaves the locals, the requests and the promise
\* of every other invocation as they were.
C24_InstancesApart ==
  [][ /\ Cells' # Cells =>
           /\ peer' = peer
           /\ \/ lastOp' \in {"fetchData", "clearData"}
              \/ \E c \in Calls : pc[c] = "fetching" /\ attempts'[c] # attempts[c]
      /\ PeerCells' # PeerCells => UNCHANGED <<data, loading, error, pc, attempts, result>>
      /\ peer' # peer => UNCHANGED <<data, loading, error>>
      /\ \A c \in Calls : \A d \in Calls :
           (c # d /\ attempts'[c] # attempts[c]) =>
             /\ attempts'[d] = attempts[d]
             /\ i'[d] = i[d]
             /\ targetUrl'[d] = targetUrl[d]
             /\ result'[d] = result[d]
    ]_vars

\* the second instance has its envelope while an invocation of the first is
\* still in flight and shows nothing yet
C24_Witness ==
  /\ peer.pc = "resolved"
  /\ peer.data # Null
  /\ peer.loading = FALSE
  /\ \E c \in Calls : pc[c] = "fetching" /\ Len(attempts[c]) = 2
  /\ loading = TRUE
  /\ data = Null
  /\ error = Null

(* ------------------------------------------------------------------ *)
(* C25                                                                 *)
(* ------------------------------------------------------------------ *)

\* C25 (runs in which outstanding HTTP requests complete): an invocation that
\* is in flight eventually settles, resolved or rejected, so that again and
\* again no invocation is in flight; no invocation ever makes more than three
\* attempts; and whenever no invocation is in flight loading is false.
C25_EveryInvocationSettles ==
  /\ []<>(\A c \in Calls : pc[c] # "fetching")
  /\ [](\A c \in Calls : Len(attempts[c]) <= 3)
  /\ []((\A c \in Calls : pc[c] # "fetching") => loading = FALSE)

\* both invocations have settled, one of them after three attempts
C25_Witness ==
  /\ \A c \in Calls : pc[c] \in {"resolved", "rejected"}
  /\ \E c \in Calls : Len(attempts[c]) = 3 /\ pc[c] = "resolved"
  /\ loading = FALSE

(* ------------------------------------------------------------------ *)
(* C26                                                                 *)
(* ------------------------------------------------------------------ *)

\* the four phases of the state triple
PhaseIdle == loading = FALSE /\ data = Null /\ error = Null

PhaseInFlight == loading = TRUE /\ data = Null /\ error = Null

PhaseSuccess ==
  /\ loading = FALSE /\ data # Null /\ error = Null
  /\ \E c \in Calls : data = stored[c]

PhaseError ==
  /\ loading = FALSE /\ data = Null /\ error # Null
  /\ \E c \in Calls : error = storedError[c]

\* C26 (the usage of NHLDataDemo: no overlap, no clearData in flight, no
\* throwing callback): in every reachable state the triple (loading, data,
\* error) is idle, in-flight, settled-success (the envelope an invocation
\* stored) or settled-error (the message an invocation stored); it is
\* in-flight exactly while an invocation is in flight.
C26_FourPhases ==
  /\ PhaseIdle \/ PhaseInFlight \/ PhaseSuccess \/ PhaseError
  /\ PhaseInFlight <=> \E c \in Calls : pc[c] = "fetching"

\* a success was shown, then the next invocation replaced it by its error
C26_Witness ==
  /\ pc[1] = "resolved" /\ stored[1] # Null
  /\ pc[2] = "rejected"
  /\ PhaseError
  /\ error = storedError[2]

(* ------------------------------------------------------------------ *)
(* C27                                                                 *)
(* ------------------------------------------------------------------ *)

\* in this step the outstanding attempt of invocation c, on the first or the
\* second relay, fails (network fault, non-2xx status or undecodable body)
EarlyAttemptFails(c) ==
  /\ attempts[c] # <<>>
  /\ attempts[c][Len(attempts[c])].outcome = "outstanding"
  /\ attempts[c][Len(attempts[c])].index < Len(CORS_PROXIES) - 1
  /\ attempts'[c][Len(attempts[c])].outcome = "failed"

\* C27: a failed relay attempt that is not the last one leaves loading, data
\* and error unchanged and invokes no callback; the invocation stays in
\* flight, and the only effect is that the next relay is asked.
C27_EarlyFailureIsSilent ==
  [][\A c \in Calls :
       EarlyAttemptFails(c) =>
         /\ UNCHANGED <<loading, data, error>>
         /\ UNCHANGED <<successCalls, errorCalls, result>>
         /\ pc'[c] = "fetching"
         /\ Len(attempts'[c]) = Len(attempts[c]) + 1
         /\ attempts'[c][Len(attempts'[c])].index = attempts[c][Len(attempts[c])].index + 1
         /\ attempts'[c][Len(attempts'[c])].outcome = "outstanding"
         /\ \A b \in Calls \ {c} : attempts'[b] = attempts[b] /\ pc'[b] = pc[b]]_vars

\* the first two relays have failed, the third is being asked, and the hook
\* shows nothing but the loading phase
C27_Witness ==
  \E c \in Calls :
    /\ Len(attempts[c]) = 3
    /\ attempts[c][1].outcome = "failed"
    /\ attempts[c][2].outcome = "failed"
    /\ attempts[c][3].outcome = "outstanding"
    /\ loading = TRUE /\ data = Null /\ error = Null
    /\ successCalls[c] = <<>> /\ errorCalls[c] = <<>>
    /\ result[c] = Pending

(* ------------------------------------------------------------------ *)
(* C28                                                                 *)
(* ------------------------------------------------------------------ *)

\* invocation c has started, has not settled, and no relay has answered it
\* yet (so that no callback of it has run)
Unanswered(c) ==
  /\ pc[c] = "fetching"
  /\ \A j \in 1..Len(attempts[c]) : attempts[c][j].outcome # "success"

\* C28: loading is true in every state in which an invocation has started and
\* not yet settled, overlapping invocations included.  Stated for the
\* invocations that no relay has answered yet, which the claim covers: the
\* flag then owes nothing to a callback.
C28_LoadingWhileInFlight ==
  (\E c \in Calls : Unanswered(c)) => loading = TRUE

(* ------------------------------------------------------------------ *)
(* C29                                                                 *)
(* ------------------------------------------------------------------ *)

\* C29: clearData changes only data and error: it leaves loading and every
\* invocation (its position, its relay attempts, its promise, its callbacks)
\* as they were; an invocation in flight when clearData ran goes on to the
\* next relay when its attempt fails, and writes its envelope or its message
\* when it settles.
C29_ClearDataCancelsNothing ==
  [][/\ lastOp' = "clearData" =>
          /\ data' = Null /\ error' = Null
          /\ UNCHANGED <<loading, pc, i, attempts, result, successCalls, errorCalls>>
     /\ \A c \in Calls :
          /\ (lastOp = "clearData" /\ EarlyAttemptFails(c)) =>
               /\ pc'[c] = "fetching"
               /\ Len(attempts'[c]) = Len(attempts[c]) + 1
          /\ (lastOp = "clearData" /\ AttemptSucceeds(c)) =>
               data' = Some(EnvelopeFor(c, attempts[c][Len(attempts[c])].index,
                                        attempts'[c][Len(attempts[c])].payload))
          /\ (lastOp = "clearData" /\ Exhausts(c)) =>
               error' = Some(MessageFor(c))]_vars

\* clearData has just wiped the envelope that a later invocation had stored,
\* while the earlier invocation is still in flight on its last relay
C29_Witness ==
  /\ lastOp = "clearData"
  /\ pc[2] = "resolved" /\ stored[2] # Null
  /\ pc[1] = "fetching" /\ Len(attempts[1]) = Len(CORS_PROXIES)
  /\ data = Null /\ error = Null

(* ------------------------------------------------------------------ *)
(* C30                                                                 *)
(* ------------------------------------------------------------------ *)

\* C30 (runs in which invocation a + 1 starts while invocation a is in
\* flight): when both of two overlapping invocations succeed, the data shown
\* once both have settled is the envelope of the one that settled last, be it
\* the earlier-issued or the later-issued one.
C30_LastSuccessShown ==
  [][\A a \in Calls, b \in Calls :
       (a # b /\ pc[a] = "resolved" /\ pc[b] = "fetching" /\ pc'[b] = "resolved") =>
         data' = Some(EnvelopeFor(b, i[b], result'[b].value))]_vars

\* both invocations asked for different documents and succeeded; the one
\* issued first settled last, and its envelope is the one shown
C30_Witness ==
  /\ pc[1] = "resolved" /\ pc[2] = "resolved"
  /\ targetUrl[1] # targetUrl[2]
  /\ lastOp = "continuation"
  /\ data = stored[1]
  /\ data # stored[2]

(* ------------------------------------------------------------------ *)
(* C31                                                                 *)
(* ------------------------------------------------------------------ *)

\* C31: each NHLEndpoints helper returns the path its template returns for the
\* same arguments: getTeamRoster(c) is '/roster/' + c + '/current',
\* getTeamStats(c, s) is '/club-stats/' + c + '/' + s + '/2' with s defaulting
\* to '20252026', getTeamSchedule(c, s) is the team-schedule template's path,
\* and the helpers without parameters return '/schedule/now',
\* '/standings/now', '/leaders/skaters' and '/leaders/goalies'.
C31_HelpersEqualTemplates ==
  /\ lastCall.fn = "getTeamRoster" =>
       /\ lastCall.path = teamRoster(lastCall.teamCode)
       /\ lastCall.path = "/roster/" \o lastCall.teamCode \o "/current"
  /\ lastCall.fn = "getTeamStats" =>
       /\ lastCall.path = teamStats(lastCall.teamCode, lastCall.season)
       /\ lastCall.path =
            "/club-stats/" \o lastCall.teamCode \o "/" \o SeasonOf(lastCall) \o "/2"
  /\ lastCall.fn = "getTeamSchedule" =>
       lastCall.path = teamSchedule(lastCall.teamCode, lastCall.season)
  /\ lastCall.fn = "getCurrentSchedule" =>
       lastCall.path = currentSchedule /\ lastCall.path = "/schedule/now"
  /\ lastCall.fn = "getCurrentStandings" =>
       lastCall.path = currentStandings /\ lastCall.path = "/standings/now"
  /\ lastCall.fn = "getPlayerLeaders" =>
       lastCall.path = playerLeaders /\ lastCall.path = "/leaders/skaters"
  /\ lastCall.fn = "getGoalieLeaders" =>
       lastCall.path = goalieLeaders /\ lastCall.path = "/leaders/goalies"

\* the team-statistics helper called for a season that is not the default
C31_Witness ==
  /\ lastCall.fn = "getTeamStats"
  /\ lastCall.teamCode = "DAL"
  /\ lastCall.season = Some("20242025")
  /\ lastCall.path = "/club-stats/DAL/20242025/2"

(* ------------------------------------------------------------------ *)
(* C32                                                                 *)
(* ------------------------------------------------------------------ *)

\* the number of relays, and of endpoints of the running tester
RelayCount == Len(CORS_PROXIES)

EndpointCount == Len(TesterEndpoints(page.tester))

\* C32: in a multi-endpoint tester the attempts are made in endpoint-major
\* order (the j-th attempt asks relay (j-1) mod 3 for endpoint (j-1) div 3, so
\* all three relays are tried for an endpoint before the next endpoint); the
\* first successful attempt is the last attempt, and the tester has then
\* returned with 'success'; connectionStatus is 'error' only when every
\* endpoint has failed on every relay.
C32_EndpointMajorOrder ==
  page.tester \in MultiTesters =>
    /\ \A j \in 1..Len(page.log) :
         /\ page.log[j].endpoint = (j - 1) \div RelayCount
         /\ page.log[j].proxy = (j - 1) % RelayCount
         /\ page.log[j].target = TesterEndpoints(page.tester)[((j - 1) \div RelayCount) + 1]
    /\ \A j \in 1..Len(page.log) :
         /\ j < Len(page.log) => page.log[j].outcome = "failed"
         /\ page.log[j].outcome = "success" =>
              /\ page.pc = "returned"
              /\ page.connectionStatus = "success"
    /\ page.connectionStatus = "error" =>
         /\ Len(page.log) = EndpointCount * RelayCount
         /\ \A j \in 1..Len(page.log) : page.log[j].outcome = "failed"
         /\ \A e \in 0..(EndpointCount - 1), k \in 0..(RelayCount - 1) :
              \E j \in 1..Len(page.log) :
                page.log[j].endpoint = e /\ page.log[j].proxy = k
    /\ (page.connectionStatus = "testing" /\ page.log # <<>>) =>
         page.log[Len(page.log)].outcome = "outstanding"

\* test2025Season found its second endpoint through the second relay, after
\* the first endpoint had failed on all three relays
C32_Witness ==
  /\ page.tester = "test2025Season"
  /\ Len(page.log) = 5
  /\ page.log[3].endpoint = 0 /\ page.log[3].proxy = 2 /\ page.log[3].outcome = "failed"
  /\ page.log[4].endpoint = 1 /\ page.log[4].proxy = 0 /\ page.log[4].outcome = "failed"
  /\ page.log[5].endpoint = 1 /\ page.log[5].proxy = 1 /\ page.log[5].outcome = "success"
  /\ page.connectionStatus = "success"
  /\ page.apiData # Null
  /\ page.apiData[1].endpoint = "https://api-web.nhle.com/v1/season/20252026"

(* ------------------------------------------------------------------ *)
(* C33                                                                 *)
(* ------------------------------------------------------------------ *)

\* in this step the running tester returns
TesterReturns == page.pc = "fetching" /\ page'.pc = "returned"

\* some relay returned a 2xx parseable response to the tester that has just
\* returned; all three relays failed it
SomeRelayAnswered == \E j \in 1..Len(page'.log) : page'.log[j].outcome = "success"

AllThreeFailed ==
  /\ Len(page'.log) = Len(CORS_PROXIES)
  /\ \A j \in 1..Len(page'.log) : page'.log[j].outcome = "failed"

\* C33: a single-endpoint tester makes at most three fetches, and when the
\* last of them has completed it returns with connectionStatus 'success' or
\* 'error', never 'testing'; it ends 'success' with apiData non-null exactly
\* when some relay returned a 2xx parseable response, and 'error' with
\* apiData null exactly when all three relays failed.
C33_SingleTesterEnds ==
  [][page.tester \in SingleTesters =>
       /\ Len(page'.log) <= Len(CORS_PROXIES)
       /\ (page.pc = "fetching" /\ page.i = Len(CORS_PROXIES) - 1 /\ page' # page) =>
            page'.pc = "returned"
       /\ TesterReturns =>
            /\ page'.connectionStatus \in {"success", "error"}
            /\ (page'.connectionStatus = "success" /\ page'.apiData # Null)
                 <=> SomeRelayAnswered
            /\ (page'.connectionStatus = "error" /\ page'.apiData = Null)
                 <=> AllThreeFailed
            /\ SomeRelayAnswered # AllThreeFailed]_vars

\* testAvalancheRoster has returned after all three relays failed
C33_Witness ==
  /\ page.tester = "testAvalancheRoster"
  /\ page.pc = "returned"
  /\ Len(page.log) = 3
  /\ \A j \in 1..3 : page.log[j].outcome = "failed" /\ page.log[j].proxy = j - 1
  /\ page.connectionStatus = "error"
  /\ page.apiData = Null
  /\ page.toast = Some([title |-> "Colorado Avalanche Roster API Failed",
                        variant |-> "destructive"])

====
